---- MODULE Spec2Model ----
(***************************************************************************)
(* Model of the GPX importer of blender-gpx (src/__init__.py): the         *)
(* operator ImportGpx with its methods execute, read_gpx_file, makeMesh,   *)
(* makeCurve, getProjection, createSpline, setSplinePoint and              *)
(* setCurveBevelObject, acting on the data of a .blend file (bpy.data,     *)
(* the scenes and their custom properties).                                *)
(*                                                                         *)
(* Numbers: latitudes, longitudes and elevations are integers.  Every      *)
(* latitude and longitude of the input alphabet is even, like the          *)
(* sentinels 90, -90, 180, -180, so the midpoint (a + b)/2 of line 160 is  *)
(* exact and \div computes it.                                             *)
(*                                                                         *)
(* Specifications:                                                         *)
(*   SpecFile    one import of any file of at most MaxLen elements;        *)
(*   Spec        up to MaxImports imports of the files of Library into a   *)
(*               .blend file of two scenes;                                *)
(*   SpecOrigin  up to MaxReimports imports into the one scene of a file.  *)
(***************************************************************************)
EXTENDS Integers, Sequences, FiniteSets, TLC

\* ------------------------------------------------------------------ bounds
\* longest file (number of elements below the root) of specification SpecFile
MaxLen == 6
\* number of imports of one session of specification Spec
MaxImports == 2
\* number of imports of one session of specification SpecOrigin
MaxReimports == 3

\* --------------------------------------------------------------- constants
_curveBevelObjectName == "gpx_bevel"

_bevelCurves ==
  [ line   |-> [data |-> << <<-1, 0, 0>>, <<1, 0, 0>> >>, closed |-> FALSE],
    square |-> [data |-> << <<-1, 0, 0>>, <<1, 0, 0>>, <<1, 2, 0>>, <<-1, 2, 0>> >>,
                closed |-> TRUE] ]

\* ------------------------------------------------------------ text and tags
\* A tag is a sequence of characters; GPX 1.1 tags carry a namespace in
\* curly brackets, written {n} here.
Ns == << "{", "n", "}" >>
TagTrk == Ns \o << "t", "r", "k" >>
TagRte == Ns \o << "r", "t", "e" >>
TagTrkseg == << "t", "r", "k", "s", "e", "g" >>
TagTrkpt == Ns \o << "t", "r", "k", "p", "t" >>
TagEle == Ns \o << "e", "l", "e" >>
TagTime == Ns \o << "t", "i", "m", "e" >>

\* str.find(c): the lowest 0-based index of c in s, -1 when c is not in s
Find(s, c) ==
  IF \E i \in 1..Len(s) : s[i] = c
    THEN (CHOOSE i \in 1..Len(s) : s[i] = c /\ \A j \in 1..(i - 1) : s[j] # c) - 1
    ELSE -1

\* tag[tag.find("}")+1:]
LocalName(tag) == SubSeq(tag, Find(tag, "}") + 2, Len(tag))

\* float(text) for the decimal text of an integer: an optional sign and one or
\* more digits.  Any other text raises ValueError.
Digits == << "0", "1", "2", "3", "4", "5", "6", "7", "8", "9" >>
IsDigit(c) == \E d \in 1..10 : Digits[d] = c
DigitValue(c) == (CHOOSE d \in 1..10 : Digits[d] = c) - 1

RECURSIVE Magnitude(_)
Magnitude(ds) ==
  IF ds = << >> THEN 0 ELSE 10 * Magnitude(SubSeq(ds, 1, Len(ds) - 1)) + DigitValue(ds[Len(ds)])

Float(text) ==
  LET neg == text # << >> /\ text[1] = "-"
      ds == IF neg THEN Tail(text) ELSE text
      ok == ds # << >> /\ \A i \in 1..Len(ds) : IsDigit(ds[i])
  IN  [ok |-> ok, value |-> IF ~ok THEN 0 ELSE IF neg THEN 0 - Magnitude(ds) ELSE Magnitude(ds)]

\* ----------------------------------------------------------------- the files
\* A file is a name and its content; a well-formed content is a stream of
\* elements in document order, each opened at nesting level 1, 2 or 3 below
\* the root gpx element.  A trkpt is given with its attributes and children.
Elem(tag, attrib, children) == [tag |-> tag, attrib |-> attrib, children |-> children]
Leaf(tag, text) == [tag |-> tag, text |-> text]

PtA == Elem(TagTrkpt, [lat |-> << "4", "0" >>, lon |-> << "1", "0" >>],
           << Leaf(TagTime, << "t" >>), Leaf(TagEle, << "6" >>) >>)
PtB == Elem(TagTrkpt, [lat |-> << "2", "0" >>, lon |-> << "3", "0" >>], << >>)
PtC == Elem(TagTrkpt, [lat |-> << "6", "0" >>, lon |-> << "-", "1", "0" >>],
           << Leaf(TagEle, << "a", "b", "c" >>) >>)
PtBadLat == Elem(TagTrkpt, [lat |-> << "a", "b", "c" >>, lon |-> << "1", "0" >>], << >>)
PtNoLon == Elem(TagTrkpt, [lat |-> << "4", "0" >>], << Leaf(TagEle, << "6" >>) >>)

Points == {PtA, PtB, PtC, PtBadLat, PtNoLon}
Tokens == { [level |-> 1, tag |-> TagTrk], [level |-> 2, tag |-> TagTrkseg] }
          \cup { [level |-> 3, pt |-> p] : p \in Points }

\* etree.parse(...).getroot(): the children of the root, as a tree.  An
\* element of level k + 1 is a child of the last element of level k.
AddChild(e, c) == [e EXCEPT !.children = Append(@, c)]
AddGrandChild(e, c) ==
  [e EXCEPT !.children = [@ EXCEPT ![Len(@)] = AddChild(@, c)]]

RECURSIVE Tree(_, _)
Tree(stream, root) ==
  IF stream = << >> THEN root
  ELSE LET t == Head(stream)
           n == Len(root)
       IN  Tree(Tail(stream),
             CASE t.level = 1 -> Append(root, Elem(t.tag, << >>, << >>))
               [] t.level = 2 -> [root EXCEPT ![n] = AddChild(@, Elem(t.tag, << >>, << >>))]
               [] t.level = 3 -> [root EXCEPT ![n] = AddGrandChild(@, t.pt)])

\* a stream nests: an element of level 2 follows some element of level 1, and
\* an element of level 3 has an element of level 2 open in the current
\* element of level 1
Nests(stream) ==
  \A i \in 1..Len(stream) :
    /\ stream[i].level = 2 => i > 1
    /\ stream[i].level = 3 => i > 1 /\ stream[i - 1].level \in {2, 3}

\* the streams of at most n elements that nest
RECURSIVE Streams(_)
Streams(n) ==
  IF n = 0 THEN { << >> }
  ELSE LET shorter == Streams(n - 1)
       IN  shorter \cup { s \in { Append(x, t) : x \in shorter, t \in Tokens } :
                            Len(s) = n /\ Nests(s) }

File(name, wellFormed, stream) ==
  [name |-> name, wellFormed |-> wellFormed, stream |-> stream]

\* ------------------------------------------------------------- read_gpx_file
\* lines 127-130
Sentinels == [minLat |-> 90, maxLat |-> -90, minLon |-> 180, maxLon |-> -180]

\* lines 146-149: the track extent, updated with if/elif
ExtentLat(b, lat) ==
  IF lat < b.minLat THEN [b EXCEPT !.minLat = lat]
  ELSE IF lat > b.maxLat THEN [b EXCEPT !.maxLat = lat]
  ELSE b

ExtentLon(b, lon) ==
  IF lon < b.minLon THEN [b EXCEPT !.minLon = lon]
  ELSE IF lon > b.maxLon THEN [b EXCEPT !.maxLon = lon]
  ELSE b

\* lines 151-155: the index of the first child whose local name is ele, 0 for None
FindEle(children) ==
  IF \E i \in 1..Len(children) : LocalName(children[i].tag) = << "e", "l", "e" >>
    THEN CHOOSE i \in 1..Len(children) :
           /\ LocalName(children[i].tag) = << "e", "l", "e" >>
           /\ \A j \in 1..(i - 1) : LocalName(children[j].tag) # << "e", "l", "e" >>
    ELSE 0

\* MakePoint reading ele whether or not useElevation is set
MakePointReadsEle(lat, lon, children, ele, useElevation) ==
  IF ele # 0
    THEN LET z == Float(children[ele].text)
         IN  [ok |-> z.ok, point |-> << lat, lon, z.value >>]
    ELSE [ok |-> TRUE, point |-> << lat, lon >>]

\* line 156: (lat, lon, float(ele.text)) or (lat, lon); ok is FALSE when float raises
MakePoint(lat, lon, children, ele, useElevation) ==
  IF useElevation /\ ele # 0
    THEN LET z == Float(children[ele].text)
         IN  [ok |-> z.ok, point |-> << lat, lon, z.value >>]
    ELSE [ok |-> TRUE, point |-> << lat, lon >>]

\* lines 143-157, one trkpt.  st is the state of the scan: ok (no exception so
\* far), the segments closed so far, the segment being read and the extent.
ReadTrkpt(st, e3, useElevation) ==
  IF ~("lat" \in DOMAIN e3.attrib) THEN [st EXCEPT !.ok = FALSE]      \* KeyError
  ELSE LET lat == Float(e3.attrib.lat) IN
  IF ~lat.ok THEN [st EXCEPT !.ok = FALSE]                             \* ValueError
  ELSE IF ~("lon" \in DOMAIN e3.attrib) THEN [st EXCEPT !.ok = FALSE]
  ELSE LET lon == Float(e3.attrib.lon) IN
  IF ~lon.ok THEN [st EXCEPT !.ok = FALSE]
  ELSE LET p == MakePoint(lat.value, lon.value, e3.children, FindEle(e3.children), useElevation)
       IN  IF ~p.ok THEN [st EXCEPT !.ok = FALSE]
           ELSE [st EXCEPT !.extent = ExtentLon(ExtentLat(@, lat.value), lon.value),
                           !.segment = Append(@, p.point)]

\* lines 141-157: for e3 in e2
RECURSIVE ReadTrkseg(_, _, _)
ReadTrkseg(st, e3s, useElevation) ==
  IF e3s = << >> \/ ~st.ok THEN st
  ELSE ReadTrkseg(IF LocalName(Head(e3s).tag) = << "t", "r", "k", "p", "t" >>
                    THEN ReadTrkpt(st, Head(e3s), useElevation)
                    ELSE st,
                  Tail(e3s), useElevation)

\* lines 138-158: for e2 in e1
RECURSIVE ReadTrk(_, _, _)
ReadTrk(st, e2s, useElevation) ==
  IF e2s = << >> \/ ~st.ok THEN st
  ELSE ReadTrk(IF LocalName(Head(e2s).tag) = << "t", "r", "k", "s", "e", "g" >>
                 THEN LET r == ReadTrkseg([st EXCEPT !.segment = << >>],
                                          Head(e2s).children, useElevation)
                      IN  IF r.ok THEN [r EXCEPT !.segments = Append(@, r.segment)] ELSE r
                 ELSE st,
               Tail(e2s), useElevation)

\* lines 134-158: for e1 in gpx
RECURSIVE ReadGpx(_, _, _)
ReadGpx(st, e1s, useElevation) ==
  IF e1s = << >> \/ ~st.ok THEN st
  ELSE ReadGpx(IF LocalName(Head(e1s).tag) = << "t", "r", "k" >>
                 THEN ReadTrk(st, Head(e1s).children, useElevation)
                 ELSE st,
               Tail(e1s), useElevation)

\* lines 125-158: parse the file and scan it.  ok is FALSE when etree.parse
\* or the scan raises.
Scan(file, useElevation) ==
  LET st0 == [ok |-> TRUE, segments |-> << >>, segment |-> << >>, extent |-> Sentinels]
  IN  IF ~file.wellFormed THEN [st0 EXCEPT !.ok = FALSE]               \* ParseError
      ELSE ReadGpx(st0, Tree(file.stream, << >>), useElevation)

\* line 160: the centre handed to getProjection
Centre(extent) ==
  [lat |-> (extent.minLat + extent.maxLat) \div 2,
   lon |-> (extent.minLon + extent.maxLon) \div 2]

\* -------------------------------------------------------------- getProjection
\* the fallback projection of lines 227-229, built on (lat, lon)
TransverseMercator(lat, lon) == [lat |-> lat, lon |-> lon]

\* the planar offset of a point from the origin of the projection
fromGeographic(projection, lat, lon) == << lon - projection.lon, lat - projection.lat >>

\* scene[key] = value
SetItem(props, key, value) ==
  [k \in (DOMAIN props) \cup {key} |-> IF k = key THEN value ELSE props[k]]

\* getProjection that never looks for a stored origin
getProjectionFresh(sc, scene, ignoreGeoreferencing, lat, lon) ==
  [props |-> [sc EXCEPT ![scene] = SetItem(SetItem(@, "lat", lat), "lon", lon)],
   projection |-> TransverseMercator(lat, lon)]

\* getProjection that uses the stored origin though ignoreGeoreferencing is set
getProjectionKeep(sc, scene, ignoreGeoreferencing, lat, lon) ==
  IF "lat" \in DOMAIN sc[scene] /\ "lon" \in DOMAIN sc[scene]
    THEN [props |-> sc,
          projection |-> TransverseMercator(sc[scene]["lat"], sc[scene]["lon"])]
    ELSE [props |-> [sc EXCEPT ![scene] = SetItem(SetItem(@, "lat", lat), "lon", lon)],
          projection |-> TransverseMercator(lat, lon)]

\* getProjection with one origin for the whole file: found on any scene, and
\* stored on all of them
getProjectionShared(sc, scene, ignoreGeoreferencing, lat, lon) ==
  IF ~ignoreGeoreferencing /\ \E s \in DOMAIN sc : "lat" \in DOMAIN sc[s] /\ "lon" \in DOMAIN sc[s]
    THEN LET s == CHOOSE s \in DOMAIN sc : "lat" \in DOMAIN sc[s] /\ "lon" \in DOMAIN sc[s]
         IN  [props |-> sc,
              projection |-> TransverseMercator(sc[s]["lat"], sc[s]["lon"])]
    ELSE [props |-> [s \in DOMAIN sc |-> SetItem(SetItem(sc[s], "lat", lat), "lon", lon)],
          projection |-> TransverseMercator(lat, lon)]

\* lines 213-230.  sc is the custom properties of the scenes of the file,
\* scene the scene of the context.
getProjection(sc, scene, ignoreGeoreferencing, lat, lon) ==
  IF "lat" \in DOMAIN sc[scene] /\ "lon" \in DOMAIN sc[scene] /\ ~ignoreGeoreferencing
    THEN [props |-> sc,
          projection |-> TransverseMercator(sc[scene]["lat"], sc[scene]["lon"])]
    ELSE [props |-> [sc EXCEPT ![scene] = SetItem(SetItem(@, "lat", lat), "lon", lon)],
          projection |-> TransverseMercator(lat, lon)]

\* ------------------------------------------------------------------- bpy.data
\* The name of an object is a base and a number: base, base.001, base.002, ...
\* bpy.data.objects.new gives the first name of the base that is free.
NameTaken(objects, name) == \E i \in 1..Len(objects) : objects[i].name = name

UniqueName(objects, base) ==
  [base |-> base,
   n |-> CHOOSE n \in 0..Len(objects) :
           /\ ~NameTaken(objects, [base |-> base, n |-> n])
           /\ \A m \in 0..(n - 1) : NameTaken(objects, [base |-> base, n |-> m])]

\* bpy.data.objects.new(name, data); the type of the object is that of its
\* data.  made is the number of the import that created the object.
ObjectsNew(objects, base, type, data, made) ==
  Append(objects, [name |-> UniqueName(objects, base), type |-> type, data |-> data,
                   hide_select |-> FALSE, made |-> made])

\* bpy.data.objects.get(name): the index of the object of that name, 0 for None
ObjectsGet(objects, base) ==
  IF NameTaken(objects, [base |-> base, n |-> 0])
    THEN CHOOSE i \in 1..Len(objects) : objects[i].name = [base |-> base, n |-> 0]
    ELSE 0

\* bpy.data.curves.new(name, 'CURVE')
CurvesNew(curves, name) ==
  Append(curves, [name |-> name, splines |-> << >>, bevel_object |-> 0])

\* --------------------------------------------------------------------- splines
\* lines 232-236: curve.splines.new('POLY'); a new spline has one point.
\* self.spline is the last spline of the curve, self.pointIndex is 0.
createSpline(curve) ==
  [curve EXCEPT !.splines = Append(@, [points |-> << << 0, 0, 0, 1 >> >>,
                                       use_cyclic_u |-> FALSE])]

\* self.spline.points.add(count)
PointsAdd(curve, count) ==
  [curve EXCEPT !.splines[Len(curve.splines)].points =
     @ \o [i \in 1..count |-> << 0, 0, 0, 1 >>]]

\* lines 238-240; the caller adds 1 to pointIndex
setSplinePoint(curve, pointIndex, point) ==
  [curve EXCEPT !.splines[Len(curve.splines)].points[pointIndex + 1] =
     << point[1], point[2], point[3], 1 >>]

\* the z of lines 174 and 202
Elevation(point, useElevation) == IF useElevation /\ Len(point) = 3 THEN point[3] ELSE 0

\* -------------------------------------------------------------------- makeMesh
\* lines 172-177: for point in segment; a vertex is its index in bm.verts and
\* prevVertex is 0 for None
RECURSIVE MeshSegment(_, _, _, _, _)
MeshSegment(bm, segment, prevVertex, projection, useElevation) ==
  IF segment = << >> THEN bm
  ELSE LET point == Head(segment)
           v == fromGeographic(projection, point[1], point[2])
           new == Len(bm.verts) + 1
       IN  MeshSegment(
             [verts |-> Append(bm.verts, << v[1], v[2], Elevation(point, useElevation) >>),
              edges |-> IF prevVertex # 0 THEN Append(bm.edges, << prevVertex, new >>)
                                          ELSE bm.edges],
             Tail(segment), new, projection, useElevation)

\* MeshSegments without line 171: prevVertex survives the end of a segment
RECURSIVE MeshSegmentsChained(_, _, _, _)
MeshSegmentsChained(bm, segments, projection, useElevation) ==
  IF segments = << >> THEN bm
  ELSE MeshSegmentsChained(
         MeshSegment(bm, Head(segments), Len(bm.verts), projection, useElevation),
         Tail(segments), projection, useElevation)

\* lines 170-177: for segment in segments
RECURSIVE MeshSegments(_, _, _, _)
MeshSegments(bm, segments, projection, useElevation) ==
  IF segments = << >> THEN bm
  ELSE MeshSegments(MeshSegment(bm, Head(segments), 0, projection, useElevation),
                    Tail(segments), projection, useElevation)

\* ------------------------------------------------------------------- makeCurve
\* lines 198-202: for i, point in enumerate(segment)
RECURSIVE CurveSegment(_, _, _, _, _)
CurveSegment(curve, segment, i, projection, useElevation) ==
  IF i = Len(segment) THEN curve
  ELSE LET point == segment[i + 1]
           c1 == IF i # 0 THEN PointsAdd(curve, 1) ELSE curve
           v == fromGeographic(projection, point[1], point[2])
       IN  CurveSegment(
             setSplinePoint(c1, i, << v[1], v[2], Elevation(point, useElevation) >>),
             segment, i + 1, projection, useElevation)

\* lines 196-202: for segment in segments
RECURSIVE CurveSegments(_, _, _, _)
CurveSegments(curve, segments, projection, useElevation) ==
  IF segments = << >> THEN curve
  ELSE CurveSegments(
         CurveSegment(createSpline(curve), Head(segments), 0, projection, useElevation),
         Tail(segments), projection, useElevation)

\* lines 249-256: the spline of the bevel curve
RECURSIVE BevelPoints(_, _, _)
BevelPoints(curve, data, pointIndex) ==
  IF pointIndex = Len(data) THEN curve
  ELSE BevelPoints(setSplinePoint(curve, pointIndex, data[pointIndex + 1]), data, pointIndex + 1)

BevelCurve(bevelCurveId) ==
  LET shape == _bevelCurves[bevelCurveId]
      c1 == PointsAdd(createSpline(CurvesNew(<< >>, _curveBevelObjectName)[1]),
                      Len(shape.data) - 1)
      c2 == BevelPoints(c1, shape.data, 0)
  IN  IF shape.closed THEN [c2 EXCEPT !.splines[1].use_cyclic_u = TRUE] ELSE c2

\* setCurveBevelObject that does not look for the bevel object of the file
setCurveBevelObjectNew(d, curve, scene, bevelCurveId, made) ==
  LET curves1 == Append(d.curves, BevelCurve(bevelCurveId))
      objects1 == ObjectsNew(d.objects, _curveBevelObjectName, "CURVE", Len(curves1), made)
      bevelObj == Len(objects1)
  IN  [objects |-> [objects1 EXCEPT ![bevelObj].hide_select = TRUE],
       curves |-> [curves1 EXCEPT ![curve].bevel_object = bevelObj],
       linked |-> [d.linked EXCEPT ![scene] = Append(@, bevelObj)]]

\* lines 242-271.  d is the data of the file: objects (bpy.data.objects),
\* curves (bpy.data.curves) and linked (the objects of the collection of each
\* scene); curve is the index of self.curve, scene is bpy.context.scene.
setCurveBevelObject(d, curve, scene, bevelCurveId, made) ==
  LET found == ObjectsGet(d.objects, _curveBevelObjectName)
  IN  IF found # 0 /\ d.objects[found].type = "CURVE"
        THEN [d EXCEPT !.curves[curve].bevel_object = found]
        ELSE LET curves1 == Append(d.curves, BevelCurve(bevelCurveId))
                 objects1 == ObjectsNew(d.objects, _curveBevelObjectName, "CURVE",
                                        Len(curves1), made)
                 bevelObj == Len(objects1)
             IN  [objects |-> [objects1 EXCEPT ![bevelObj].hide_select = TRUE],
                  curves |-> [curves1 EXCEPT ![curve].bevel_object = bevelObj],
                  linked |-> [d.linked EXCEPT ![scene] = Append(@, bevelObj)]]

\* ----------------------------------------------------------------- the state
VARIABLES
  sceneProps,   \* the custom properties of each scene: scene["lat"], scene["lon"]
  linked,       \* scene.collection.objects of each scene: indices into objects
  objects,      \* bpy.data.objects
  curves,       \* bpy.data.curves
  meshes,       \* bpy.data.meshes
  op,           \* the operator: its properties, self.curve, self.bm and the
                \* locals of execute, makeMesh and makeCurve
  pc,           \* "idle", or the method that runs next
  result,       \* how the last import ended: "NONE", "RUNNING", "ERROR", "FINISHED"
  imports,      \* the number of imports started
  hist          \* the calls of getProjection so far

vars == << sceneProps, linked, objects, curves, meshes, op, pc, result, imports, hist >>

\* the files of a session of several imports
T1 == [level |-> 1, tag |-> TagTrk]
T2 == [level |-> 2, tag |-> TagTrkseg]
T3(p) == [level |-> 3, pt |-> p]

\* (b.gpx is read with useElevation FALSE only: float raises on its ele;
\* a.gpx starts with a route, which is no track)
Library ==
  { File("empty.gpx", TRUE, << >>),
    File("a.gpx", TRUE, << [level |-> 1, tag |-> TagRte], T2, T3(PtC),
                           T1, T2, T3(PtB), T3(PtA) >>),
    File("b.gpx", TRUE, << T1, T2, T3(PtC) >>),
    File(_curveBevelObjectName, TRUE, << T1, T2, T3(PtB) >>) }

\* every file of at most MaxLen elements, and a file that is not XML
AllFiles ==
  { File("track.gpx", TRUE, s) : s \in Streams(MaxLen) }
  \cup { File("track.gpx", FALSE, << >>) }

NoProps == [k \in {} |-> 0]

Idle ==
  [filepath |-> File("", TRUE, << >>), scene |-> "A", importType |-> "curve",
   ignoreGeoreferencing |-> FALSE, useElevation |-> TRUE,
   curve |-> 0, bm |-> FALSE, segments |-> << >>, extent |-> Sentinels,
   projection |-> TransverseMercator(0, 0), obj |-> 0,
   before |-> [sceneProps |-> NoProps, objects |-> 0, curves |-> 0, meshes |-> 0,
               linked |-> 0]]

InitOn(scenes) ==
  /\ sceneProps = [s \in scenes |-> NoProps]
  /\ linked = [s \in scenes |-> << >>]
  /\ objects = << >>
  /\ curves = << >>
  /\ meshes = << >>
  /\ op = Idle
  /\ pc = "idle"
  /\ result = "NONE"
  /\ imports = 0
  /\ hist = << >>

\* a file of two scenes
Init == InitOn({"A", "B"})
\* a file of one scene
InitFile == InitOn({"A"})

\* lines 83-102, then makeCurve up to line 194 or makeMesh up to line 167, with
\* read_gpx_file (lines 123-162): the operator is invoked on a file with its
\* properties set, makes the empty curve or the bmesh, reads the file and gets
\* the projection.  An exception ends the import.
execute(file, scene, importType, ignoreGeoreferencing, useElevation) ==
  /\ pc = "idle"
  /\ LET isCurve == importType = "curve"
         curves1 == IF isCurve THEN CurvesNew(curves, file.name) ELSE curves
         scan == Scan(file, useElevation)
         centre == Centre(scan.extent)
         got == getProjection(sceneProps, scene, ignoreGeoreferencing,
                              centre.lat, centre.lon)
         op1 == [Idle EXCEPT !.filepath = file, !.scene = scene,
                             !.importType = importType,
                             !.ignoreGeoreferencing = ignoreGeoreferencing,
                             !.useElevation = useElevation,
                             !.curve = IF isCurve THEN Len(curves1) ELSE 0,
                             !.bm = ~isCurve,
                             !.before = [sceneProps |-> sceneProps[scene],
                                         objects |-> Len(objects),
                                         curves |-> Len(curves),
                                         meshes |-> Len(meshes),
                                         linked |-> Len(linked[scene])]]
     IN  /\ curves' = curves1
         /\ imports' = imports + 1
         /\ IF scan.ok
              THEN /\ sceneProps' = got.props
                   /\ op' = [op1 EXCEPT !.segments = scan.segments,
                                        !.extent = scan.extent,
                                        !.projection = got.projection]
                   /\ hist' = Append(hist, [number |-> imports + 1,
                                            scene |-> scene,
                                            importType |-> importType,
                                            ignoreGeoreferencing |-> ignoreGeoreferencing,
                                            centre |-> centre,
                                            before |-> sceneProps[scene],
                                            after |-> got.props[scene],
                                            projection |-> got.projection])
                   /\ pc' = IF isCurve THEN "makeCurve" ELSE "makeMesh"
                   /\ result' = "RUNNING"
              ELSE /\ op' = op1
                   /\ pc' = "idle"
                   /\ result' = "ERROR"
                   /\ UNCHANGED << sceneProps, hist >>
  /\ UNCHANGED << linked, objects, meshes >>

\* lines 170-186, then lines 104-121 of execute
makeMesh ==
  /\ pc = "makeMesh"
  /\ LET bm == MeshSegments([verts |-> << >>, edges |-> << >>], op.segments,
                            op.projection, op.useElevation)
         meshes1 == Append(meshes, [name |-> op.filepath.name, verts |-> bm.verts,
                                    edges |-> bm.edges])
         objects1 == ObjectsNew(objects, op.filepath.name, "MESH", Len(meshes1), imports)
     IN  /\ meshes' = meshes1
         /\ objects' = objects1
         /\ linked' = [linked EXCEPT ![op.scene] = Append(@, Len(objects1))]
         /\ op' = [op EXCEPT !.bm = FALSE, !.obj = Len(objects1)]
  /\ pc' = "idle"
  /\ result' = "FINISHED"
  /\ UNCHANGED << sceneProps, curves, imports, hist >>

\* lines 196-211, then lines 104-121 of execute
makeCurve ==
  /\ pc = "makeCurve"
  /\ LET curve == CurveSegments(curves[op.curve], op.segments, op.projection,
                                op.useElevation)
         d == setCurveBevelObject([objects |-> objects,
                                   curves |-> [curves EXCEPT ![op.curve] = curve],
                                   linked |-> linked],
                                  op.curve, op.scene, "square", imports)
         objects1 == ObjectsNew(d.objects, op.filepath.name, "CURVE", op.curve, imports)
     IN  /\ curves' = d.curves
         /\ objects' = objects1
         /\ linked' = [d.linked EXCEPT ![op.scene] = Append(@, Len(objects1))]
         /\ op' = [op EXCEPT !.curve = 0, !.obj = Len(objects1)]
  /\ pc' = "idle"
  /\ result' = "FINISHED"
  /\ UNCHANGED << sceneProps, meshes, imports, hist >>

\* a session: up to MaxImports imports of files of the library into the scenes
Import ==
  /\ pc = "idle"
  /\ imports < MaxImports
  /\ \E file \in Library, scene \in DOMAIN sceneProps, importType \in {"curve", "mesh"},
        ignoreGeoreferencing \in BOOLEAN, useElevation \in BOOLEAN :
       execute(file, scene, importType, ignoreGeoreferencing, useElevation)

\* one import of any file, into a scene without stored origin
ImportFile ==
  /\ pc = "idle"
  /\ imports = 0
  /\ \E file \in AllFiles, scene \in DOMAIN sceneProps, importType \in {"curve", "mesh"},
        useElevation \in BOOLEAN :
       execute(file, scene, importType, FALSE, useElevation)

\* a session of flat imports (useElevation off) into the one scene of a file
Reimport ==
  /\ pc = "idle"
  /\ imports < MaxReimports
  /\ \E file \in Library, scene \in DOMAIN sceneProps, importType \in {"curve", "mesh"},
        ignoreGeoreferencing \in BOOLEAN :
       execute(file, scene, importType, ignoreGeoreferencing, FALSE)

Next == Import \/ makeMesh \/ makeCurve
NextFile == ImportFile \/ makeMesh \/ makeCurve
NextOrigin == Reimport \/ makeMesh \/ makeCurve

Spec == Init /\ [][Next]_vars
SpecFile == InitFile /\ [][NextFile]_vars
SpecOrigin == InitFile /\ [][NextOrigin]_vars

\* ------------------------------------------------- what a file holds, read off
\* its stream: the track segments are the trkseg elements whose parent is a
\* trk, each with the trkpt elements that follow it
RECURSIVE Ascending(_)
Ascending(S) ==
  IF S = {} THEN << >>
  ELSE LET m == CHOOSE x \in S : \A y \in S : x <= y
       IN  << m >> \o Ascending(S \ {m})

ParentOf(stream, i) ==
  CHOOSE j \in 1..(i - 1) :
    stream[j].level = 1 /\ \A k \in (j + 1)..(i - 1) : stream[k].level # 1

SegmentStarts(stream) ==
  Ascending({ i \in 1..Len(stream) : stream[i] = T2 /\ stream[ParentOf(stream, i)] = T1 })

RunLength(stream, i) ==
  CHOOSE n \in 0..(Len(stream) - i) :
    /\ \A k \in 1..n : stream[i + k].level = 3
    /\ i + n = Len(stream) \/ stream[i + n + 1].level # 3

TrackSegments(file) ==
  LET starts == SegmentStarts(file.stream)
  IN  [k \in 1..Len(starts) |->
        [j \in 1..RunLength(file.stream, starts[k]) |-> file.stream[starts[k] + j].pt]]

RECURSIVE Flat(_)
Flat(segs) == IF segs = << >> THEN << >> ELSE Head(segs) \o Flat(Tail(segs))

\* the number of points before segment k
RECURSIVE Before(_, _)
Before(segs, k) == IF k = 1 THEN 0 ELSE Before(segs, k - 1) + Len(segs[k - 1])

NonEmpty(segs) == { k \in 1..Len(segs) : segs[k] # << >> }

GoodCoordinate(pt, key) == key \in DOMAIN pt.attrib /\ Float(pt.attrib[key]).ok
Lat(pt) == Float(pt.attrib.lat).value
Lon(pt) == Float(pt.attrib.lon).value
HasEle(pt) == \E i \in 1..Len(pt.children) : pt.children[i].tag = TagEle
EleOf(pt) ==
  Float(pt.children[CHOOSE i \in 1..Len(pt.children) :
                      /\ pt.children[i].tag = TagEle
                      /\ \A j \in 1..(i - 1) : pt.children[j].tag # TagEle].text).value

MinOf(S) == CHOOSE x \in S : \A y \in S : x <= y
MaxOf(S) == CHOOSE x \in S : \A y \in S : x >= y

\* the data of the object the last import made
MeshMade == meshes[objects[op.obj].data]
CurveMade == curves[objects[op.obj].data]
Finished(importType) ==
  pc = "idle" /\ result = "FINISHED" /\ op.importType = importType

\* the stored origin of a scene
HasOrigin(props) == {"lat", "lon"} \subseteq DOMAIN props
Origin(props) == [lat |-> props["lat"], lon |-> props["lon"]]

\* ---------------------------------------------------------------------- C1
\* C1 (as claimed): when the scan of a file with at least one track point has
\* ended, the running extent is the true minimum and maximum of the latitudes
\* and longitudes of the points seen, and the centre handed to getProjection
\* is the midpoint of that bounding box.
C1_ExtentIsBoundingBox ==
  LET pts == Flat(op.segments)
      lats == { pts[i][1] : i \in 1..Len(pts) }
      lons == { pts[i][2] : i \in 1..Len(pts) }
  IN  (result = "RUNNING" /\ pts # << >>) =>
        /\ op.extent = [minLat |-> MinOf(lats), maxLat |-> MaxOf(lats),
                        minLon |-> MinOf(lons), maxLon |-> MaxOf(lons)]
        /\ hist[Len(hist)].centre = [lat |-> (MinOf(lats) + MaxOf(lats)) \div 2,
                                     lon |-> (MinOf(lons) + MaxOf(lons)) \div 2]

\* ---------------------------------------------------------------------- C3
\* C3 (as claimed): an import that ends with an error has left nothing behind:
\* the stored origin of its scene is as before, and no object, curve, mesh or
\* link has been created.
C3_NoPartialEffects ==
  (pc = "idle" /\ result = "ERROR") =>
    /\ sceneProps[op.scene] = op.before.sceneProps
    /\ Len(objects) = op.before.objects
    /\ Len(linked[op.scene]) = op.before.linked
    /\ Len(curves) = op.before.curves
    /\ Len(meshes) = op.before.meshes

\* ---------------------------------------------------------------------- C4
ZeroPoints(file) == file.wellFormed /\ NonEmpty(TrackSegments(file)) = {}

\* C4 (as claimed): the import of a well-formed file without track points ends
\* without an error, builds no projection on the sentinel extent, stores no
\* origin and creates no object.
C4_EmptyTrackIsSkipped ==
  (pc = "idle" /\ imports > 0 /\ ZeroPoints(op.filepath)) =>
    /\ result # "ERROR"
    /\ hist = << >>
    /\ sceneProps[op.scene] = op.before.sceneProps
    /\ Len(objects) = op.before.objects
    /\ Len(linked[op.scene]) = op.before.linked

\* ---------------------------------------------------------------------- C5
\* C5 (as claimed): in both modes the number of chains of the output (splines
\* of the curve, connected chains of vertices of the mesh) is the number of
\* non-empty segments read, and an empty segment adds no point.
C5_ChainsAreNonEmptySegments ==
  /\ Finished("curve") =>
       /\ Len(CurveMade.splines) = Cardinality(NonEmpty(op.segments))
       /\ Len(Flat([k \in 1..Len(CurveMade.splines) |-> CurveMade.splines[k].points]))
            = Len(Flat(op.segments))
  /\ Finished("mesh") =>
       /\ Len(MeshMade.verts) - Len(MeshMade.edges) = Cardinality(NonEmpty(op.segments))
       /\ Len(MeshMade.verts) = Len(Flat(op.segments))

\* ---------------------------------------------------------------------- C6
\* the planar position of a track point under the projection of the import
Planar(pt) == fromGeographic(op.projection, Lat(pt), Lon(pt))

\* the pairs of consecutive points of one segment, as indices of document order
ConsecutivePairs(segs) ==
  UNION { { << Before(segs, k) + j, Before(segs, k) + j + 1 >> : j \in 1..(Len(segs[k]) - 1) }
          : k \in 1..Len(segs) }

ZMade(segs, k, j) ==
  IF op.importType = "mesh" THEN MeshMade.verts[Before(segs, k) + j][3]
  ELSE CurveMade.splines[k].points[j][3]

BadCoordinates(file) ==
  LET pts == Flat(TrackSegments(file))
  IN  \E i \in 1..Len(pts) : ~GoodCoordinate(pts[i], "lat") \/ ~GoodCoordinate(pts[i], "lon")

\* C7: in both modes the z of every point of a finished import is the parsed
\* elevation when useElevation is on and the trkpt has an ele child, and 0
\* otherwise; with useElevation off the ele children are not read, so an
\* import fails only on XML that is not well-formed or on bad lat or lon.
C7_ElevationToggle ==
  LET segs == TrackSegments(op.filepath)
  IN  /\ (pc = "idle" /\ result = "FINISHED") =>
           \A k \in NonEmpty(segs) : \A j \in 1..Len(segs[k]) :
             ZMade(segs, k, j) = IF op.useElevation /\ HasEle(segs[k][j])
                                   THEN EleOf(segs[k][j]) ELSE 0
      /\ (pc = "idle" /\ result = "ERROR" /\ ~op.useElevation) =>
           ~op.filepath.wellFormed \/ BadCoordinates(op.filepath)

\* a point with elevation, one without, one whose ele is not a number: all
\* three cases of the claim
C7_Witness ==
  /\ pc = "idle" /\ result = "FINISHED"
  /\ \/ /\ op.useElevation
        /\ op.filepath.stream = << T1, T2, T3(PtA), T3(PtB) >>
     \/ /\ ~op.useElevation
        /\ op.filepath.stream = << T1, T2, T3(PtA), T3(PtC) >>
  /\ op.useElevation => ZMade(TrackSegments(op.filepath), 1, 1) = 6

\* ------------------------------------------------------------ C2, C9, C10
\* the calls of getProjection before the i-th that were made on its scene
Earlier(i) == { j \in 1..(i - 1) : hist[j].scene = hist[i].scene }
FirstOn(i) == MinOf(Earlier(i) \cup {i})
CallsOn(scene) == { j \in 1..Len(hist) : hist[j].scene = scene }

\* C2: in a session that starts without stored origin, as long as no import
\* of a scene has set ignoreGeoreferencing, the first import of the scene
\* stores the centre it computed as the origin (lat, lon) of the scene, and
\* every later one builds its projection on exactly that origin, whatever its
\* own centre, and leaves the stored origin as it is.
C2_OriginReused ==
  /\ \A i \in 1..Len(hist) :
       (\A j \in Earlier(i) \cup {i} : ~hist[j].ignoreGeoreferencing) =>
         /\ hist[i].projection = hist[FirstOn(i)].centre
         /\ HasOrigin(hist[i].after)
         /\ Origin(hist[i].after) = hist[FirstOn(i)].centre
  /\ \A scene \in DOMAIN sceneProps :
       (CallsOn(scene) # {} /\ \A j \in CallsOn(scene) : ~hist[j].ignoreGeoreferencing) =>
         /\ HasOrigin(sceneProps[scene])
         /\ Origin(sceneProps[scene]) = hist[MinOf(CallsOn(scene))].centre

\* three imports without ignoreGeoreferencing, the later ones of files with
\* another centre than the first
C2_Witness ==
  /\ pc = "idle" /\ result = "FINISHED" /\ Len(hist) = 3
  /\ \A j \in 1..3 : ~hist[j].ignoreGeoreferencing
  /\ hist[2].centre # hist[1].centre
  /\ hist[3].centre # hist[1].centre

\* the origin an import is to use by the policy of the scenes: its own centre
\* when it is the first of its scene or sets ignoreGeoreferencing, else the
\* origin of the import before it on the same scene
RECURSIVE OriginOf(_)
OriginOf(i) ==
  IF Earlier(i) = {} \/ hist[i].ignoreGeoreferencing THEN hist[i].centre
  ELSE OriginOf(MaxOf(Earlier(i)))

\* C9: the stored origin belongs to the scene.  The origin an import uses is
\* decided by the earlier imports into its own scene alone; the stored origin
\* it finds is the one the last import into its own scene left (none when it is
\* the first), and the stored origin of every scene is the one the last import
\* into that scene left, whatever was imported into the other scene since.
C9_OriginPerScene ==
  /\ \A i \in 1..Len(hist) :
       /\ hist[i].projection = OriginOf(i)
       /\ hist[i].before = IF Earlier(i) = {} THEN NoProps
                           ELSE hist[MaxOf(Earlier(i))].after
  /\ \A scene \in DOMAIN sceneProps :
       sceneProps[scene] = IF CallsOn(scene) = {} THEN NoProps
                           ELSE hist[MaxOf(CallsOn(scene))].after

\* an import into A, then one into B of a file with another centre, which
\* does not set ignoreGeoreferencing
C9_Witness ==
  /\ pc = "idle" /\ result = "FINISHED" /\ Len(hist) = 2
  /\ hist[1].scene = "A" /\ hist[2].scene = "B"
  /\ ~hist[2].ignoreGeoreferencing
  /\ hist[1].centre # hist[2].centre
  /\ Origin(sceneProps["A"]) # Origin(sceneProps["B"])

\* the origin of every import, by the rule of ignoreGeoreferencing
C10_FreshOrigin ==
  \A i \in 1..Len(hist) :
    /\ hist[i].ignoreGeoreferencing =>
         /\ hist[i].projection = hist[i].centre
         /\ HasOrigin(hist[i].after)
         /\ Origin(hist[i].after) = hist[i].centre
    /\ (~hist[i].ignoreGeoreferencing /\ Earlier(i) # {}) =>
         /\ hist[i].projection = Origin(hist[MaxOf(Earlier(i))].after)
         /\ hist[i].after = hist[MaxOf(Earlier(i))].after

\* while an import builds its geometry, the stored origins and the projection
\* of the import stay as getProjection left them
C10_StableOrigin ==
  pc # "idle" => sceneProps' = sceneProps /\ op'.projection = op.projection

\* C10: an import with ignoreGeoreferencing builds its projection on the
\* centre of its own file though an origin is stored, and stores that centre
\* in place of the earlier origin, so that the next import without
\* ignoreGeoreferencing uses the new origin; the origin is set in the one call
\* of getProjection of the import and does not change while the points of the
\* import are projected.
C10_IgnoreGeoreferencing == [] C10_FreshOrigin /\ [][C10_StableOrigin]_vars

\* an origin is stored, an import with ignoreGeoreferencing replaces it by
\* another, and a third import, of a file with yet another centre, reuses it
C10_Witness ==
  /\ pc = "idle" /\ result = "FINISHED" /\ Len(hist) = 3
  /\ ~hist[1].ignoreGeoreferencing
  /\ hist[2].ignoreGeoreferencing /\ hist[2].centre # hist[1].centre
  /\ ~hist[3].ignoreGeoreferencing /\ hist[3].centre # hist[2].centre
  /\ op.projection = hist[2].centre

\* ---------------------------------------------------------------------- C8
\* the bevel profile objects (the only hidden objects) and the curves imported
Bevels == { i \in 1..Len(objects) : objects[i].type = "CURVE" /\ objects[i].hide_select }
TrackCurves == { i \in 1..Len(objects) : objects[i].type = "CURVE" /\ ~objects[i].hide_select }
BevelOf(i) == curves[objects[i].data].bevel_object
LinkedIn(scene) == { linked[scene][k] : k \in 1..Len(linked[scene]) }
ScenesOf(i) == { scene \in DOMAIN linked : i \in LinkedIn(scene) }
\* the import of a given number, among those that got as far as getProjection
ImportNumbered(n) == hist[CHOOSE j \in 1..Len(hist) : hist[j].number = n]
\* the name gpx_bevel is held by an object that is no curve
NameHeldByMesh ==
  \E i \in 1..Len(objects) :
    objects[i].name = [base |-> _curveBevelObjectName, n |-> 0] /\ objects[i].type # "CURVE"

====
